---- MODULE Spec2Model ----
(***************************************************************************)
(* Front-end of the Duurzame Kennisbank: the backend-API variant           *)
(* (src/script.js) and the static GitHub-Pages variant                     *)
(* (src/unnamed/part_000).                                                 *)
(*                                                                         *)
(* Strings are sequences of one-character strings, so that trim,           *)
(* toLowerCase, includes, escapeHtml and encodeURIComponent are computed   *)
(* character by character as the JavaScript does.  A DOM container is the  *)
(* sequence of its child nodes.                                            *)
(***************************************************************************)
EXTENDS Integers, Sequences, FiniteSets, Bags

(***************************************************************************)
(* Bounds of the model.                                                    *)
(***************************************************************************)
\* HTTP requests a page session issues at most
MaxRequests == 2
\* length of the value typed in the search input
MaxInputLen == 1
\* form submissions of one upload-page session
MaxSubmits == 3
\* length of the strings escapeHtml is applied to
MaxTextLen == 3
\* length of the collections and of the query and type handed to the filter
MaxFilterLen == 2
\* length of the item lists renderResourceList is called with on its own
MaxRenderLen == 3
\* calls of renderResourceList on one container that are counted
MaxRenderCalls == 2

(***************************************************************************)
(* JavaScript values.                                                      *)
(***************************************************************************)
\* an absent field of a record (undefined); no string holds this element
undefined == <<"undefined">>

\* x || ''
OrEmpty(x) == IF x = undefined THEN <<>> ELSE x

\* the truthiness of a string or absent field: if (x)
Truthy(x) == x # undefined /\ x # <<>>

\* String.prototype.toLowerCase on one character
LowerChar(c) ==
  CASE c = "S" -> "s"
    [] c = "W" -> "w"
    [] c = "P" -> "p"
    [] c = "D" -> "d"
    [] c = "E" -> "e"
    [] OTHER -> c

toLowerCase(s) == [i \in 1..Len(s) |-> LowerChar(s[i])]

\* String.prototype.includes: a left-to-right scan for the first offset at
\* which term occurs
RECURSIVE includesFrom(_, _, _)
includesFrom(s, term, k) ==
  IF k + Len(term) > Len(s) THEN FALSE
  ELSE IF SubSeq(s, k + 1, k + Len(term)) = term THEN TRUE
  ELSE includesFrom(s, term, k + 1)

includes(s, term) == includesFrom(s, term, 0)

\* String.prototype.trim: white space removed at both ends
RECURSIVE trimStart(_)
trimStart(s) ==
  IF s # <<>> /\ Head(s) = " " THEN trimStart(Tail(s)) ELSE s

RECURSIVE trimEnd(_)
trimEnd(s) ==
  IF s # <<>> /\ s[Len(s)] = " " THEN trimEnd(SubSeq(s, 1, Len(s) - 1)) ELSE s

trim(s) == trimEnd(trimStart(s))

\* String.prototype.replace(/c/g, rep)
RECURSIVE replaceAll(_, _, _)
replaceAll(s, c, rep) ==
  IF s = <<>> THEN <<>>
  ELSE (IF Head(s) = c THEN rep ELSE <<Head(s)>>) \o replaceAll(Tail(s), c, rep)

\* all strings over alphabet of length at most n
StringsUpTo(alphabet, n) == UNION {[1..k -> alphabet] : k \in 0..n}

(***************************************************************************)
(* escapeHtml                                                              *)
(***************************************************************************)
Amp == <<"&", "a", "m", "p", ";">>
Lt == <<"&", "l", "t", ";">>
Gt == <<"&", "g", "t", ";">>
Quot == <<"&", "q", "u", "o", "t", ";">>
Apos == <<"&", "#", "3", "9", ";">>

\* backend variant (script.js)
escapeHtml(text) ==
  IF ~Truthy(text) THEN <<>>
  ELSE replaceAll(replaceAll(replaceAll(replaceAll(replaceAll(
         text, "&", Amp), "<", Lt), ">", Gt), "\"", Quot), "'", Apos)

\* static variant (part_000).  The text of this copy is damaged: after
\* `if (!text) return '';` comes a line `return text`, and the next line
\* starts with `return` again, which cannot continue the expression, so the
\* first return statement ends there and hands back text as it is; the
\* replace chain below it is not reached.  (The stray `.replace` line after
\* the chain's semicolon and the missing closing brace do not parse; the
\* function is modelled as far as its statements read.)
escapeHtmlStatic(text) ==
  IF ~Truthy(text) THEN <<>> ELSE text

\* escapeHtml of variant v
escapeHtmlOf(v, text) ==
  IF v = "static" THEN escapeHtmlStatic(text) ELSE escapeHtml(text)

\* encodeURIComponent on the characters of the model: letters are kept,
\* the others become %XX
EncodeChar(c) ==
  CASE c = " " -> <<"%", "2", "0">>
    [] c = "&" -> <<"%", "2", "6">>
    [] c = "<" -> <<"%", "3", "C">>
    [] c = ">" -> <<"%", "3", "E">>
    [] c = "\"" -> <<"%", "2", "2">>
    [] c = "/" -> <<"%", "2", "F">>
    [] OTHER -> <<c>>

RECURSIVE encodeURIComponent(_)
encodeURIComponent(s) ==
  IF s = <<>> THEN <<>> ELSE EncodeChar(Head(s)) \o encodeURIComponent(Tail(s))

(***************************************************************************)
(* Resources and the DOM.                                                  *)
(***************************************************************************)
\* an absent tags field (no tag sequence holds this element)
undefinedList == <<undefined>>

\* x || [] for a tags field
OrNone(x) == IF x = undefinedList THEN <<>> ELSE x

r1 == [title |-> <<"S", "o">>, description |-> undefined, type |-> <<"p">>,
       tags |-> << <<"e">> >>, url |-> <<"u", "&">>, file |-> undefined]
r2 == [title |-> <<"W">>, description |-> <<"s", "<">>, type |-> <<"D">>,
       tags |-> << <<"E">>, <<"p">> >>, url |-> undefined, file |-> <<"f", " ">>]
r3 == [title |-> undefined, description |-> <<"w">>, type |-> undefined,
       tags |-> undefinedList, url |-> <<"u">>, file |-> <<"f">>]
r4 == [title |-> <<"s">>, description |-> <<>>, type |-> <<"d">>,
       tags |-> << <<>>, <<"P">> >>, url |-> undefined, file |-> undefined]

\* the collections the data source may hold
Collections == {<<>>, <<r2, r3, r1>>, <<r3, r4, r2>>}

\* the collections of the home page's data source
HomeCollections == {<<r2, r3, r1>>, <<r3, r4>>}

\* the data-type attributes of the buttons of the type selector (undefined:
\* a button without the attribute)
DataTypes == {undefined, <<"d">>}

\* what the user can type in the search input
InputValues == StringsUpTo({" ", "S"}, MaxInputLen)

NoLink == [kind |-> "none", href |-> <<>>]

\* a <p> holding a fixed text
P(text) == [tag |-> "p", class |-> "", text |-> text, title |-> <<>>,
            desc |-> <<>>, tags |-> <<>>, link |-> NoLink]

Prompt == P("Vul eerst een zoekterm in.")
SearchError == P("Er ging iets mis bij het zoeken.")
LoadError == P("Kan bronnen niet laden.")
NoResults == P("Geen resultaten gevonden.")

None == <<>>
Some(x) == <<x>>

\* an action link that looks at the file before the url
linkHtmlFileFirst(item, v) ==
  IF Truthy(item.file)
    THEN IF v = "api"
           THEN [kind |-> "download",
                 href |-> <<"/", "u", "p", "l", "o", "a", "d", "s", "/">>
                          \o encodeURIComponent(item.file)]
           ELSE NoLink
  ELSE IF Truthy(item.url)
    THEN [kind |-> "external", href |-> escapeHtmlOf(v, item.url)]
  ELSE NoLink

\* the action link of a card
linkHtml(item, v) ==
  IF Truthy(item.url)
    THEN [kind |-> "external", href |-> escapeHtmlOf(v, item.url)]
  ELSE IF Truthy(item.file)
    THEN IF v = "api"
           THEN [kind |-> "download",
                 href |-> <<"/", "u", "p", "l", "o", "a", "d", "s", "/">>
                          \o encodeURIComponent(item.file)]
           ELSE NoLink
  ELSE NoLink

\* the <div class="resource"> of one item
Card(item, v) ==
  [tag |-> "div", class |-> "resource", text |-> "",
   title |-> escapeHtmlOf(v, OrEmpty(item.title)),
   desc |-> escapeHtmlOf(v, OrEmpty(item.description)),
   tags |-> [i \in 1..Len(OrNone(item.tags)) |->
               escapeHtmlOf(v, OrNone(item.tags)[i])],
   link |-> linkHtml(item, v)]

\* renderResourceList that appends to what the container holds
renderResourceListAppend(items, old, v) ==
  IF Len(items) = 0 THEN <<NoResults>>
  ELSE old \o [i \in 1..Len(items) |-> Card(items[i], v)]

\* the children of container after renderResourceList(items, container),
\* old being its children before
renderResourceList(items, old, v) ==
  LET cleared == SubSeq(old, 1, 0)
  IN IF Len(items) = 0 THEN <<NoResults>>
     ELSE cleared \o [i \in 1..Len(items) |-> Card(items[i], v)]

(***************************************************************************)
(* The filters.                                                            *)
(***************************************************************************)
\* the static filter with the type compared as written, letter case and all
fetchResourcesCaseSensitive(resources, q, type) ==
  LET byQuery ==
        IF Truthy(q)
          THEN SelectSeq(resources, LAMBDA r :
                 \/ includes(toLowerCase(OrEmpty(r.title)), toLowerCase(q))
                 \/ includes(toLowerCase(OrEmpty(r.description)), toLowerCase(q)))
          ELSE resources
  IN IF Truthy(type)
       THEN SelectSeq(byQuery, LAMBDA r : OrEmpty(r.type) = type)
       ELSE byQuery

\* static variant: what fetchResources(q, type) resolves to once getData
\* has resolved to resources
fetchResources(resources, q, type) ==
  LET byQuery ==
        IF Truthy(q)
          THEN SelectSeq(resources, LAMBDA r :
                 \/ includes(toLowerCase(OrEmpty(r.title)), toLowerCase(q))
                 \/ includes(toLowerCase(OrEmpty(r.description)), toLowerCase(q)))
          ELSE resources
  IN IF Truthy(type)
       THEN SelectSeq(byQuery, LAMBDA r :
              toLowerCase(OrEmpty(r.type)) = toLowerCase(type))
       ELSE byQuery

\* a resource's title or description contains q, letter case ignored
QueryMatch(r, q) ==
  \E f \in {OrEmpty(r.title), OrEmpty(r.description)} :
    \E k \in 0..Len(f) :
       /\ k + Len(q) <= Len(f)
       /\ \A j \in 1..Len(q) : LowerChar(f[k + j]) = LowerChar(q[j])

\* a resource's type is t, letter case ignored
TypeMatch(r, t) ==
  LET ty == OrEmpty(r.type)
  IN Len(ty) = Len(t) /\ \A j \in 1..Len(t) : LowerChar(ty[j]) = LowerChar(t[j])

\* the backend's GET /api/resources?q=&type=: the matching records, an
\* absent parameter unconstrained
apiResources(R, q, type) ==
  SelectSeq(R, LAMBDA r : (q = <<>> \/ QueryMatch(r, q))
                          /\ (type = <<>> \/ TypeMatch(r, type)))

(***************************************************************************)
(* State.                                                                  *)
(***************************************************************************)
VARIABLES
  variant,      \* "api" (script.js) or "static" (part_000)
  page,         \* the page of window.location.pathname
  present,      \* the ids document.getElementById finds
  data,         \* the collection the backend or the JSON document holds
  loaded,       \* DOMContentLoaded has been handled
  listeners,    \* the event listeners registered so far
  threw,        \* a handler or a promise chain ended in an uncaught TypeError
  inputValue,   \* searchInput.value
  hidden,       \* typeSelect carries the class "hidden"
  resultsDiv,   \* the children of #search-results
  pending,      \* the HTTP requests for resources in flight (a bag)
  requests,     \* HTTP requests for resources issued so far
  cachedData,   \* static variant: None (null) or Some(collection)
  cacheWrites,  \* assignments to cachedData so far
  lastClick,    \* query and type of the most recent type-button click
  listDiv,      \* the children of #resource-list
  filterDiv,    \* the buttons of #tag-filter
  resources,    \* the collection the filter handler closes over
  form,         \* the fields of #upload-form
  msg,          \* textContent and style.color of #upload-message
  uploads,      \* the POST /api/upload requests in flight (a bag of payloads)
  submits,      \* form submissions so far
  navigated,    \* a submit's default navigation took place
  arg,          \* the arguments of a call of a pure function
  ret           \* its result

homeVars == <<inputValue, hidden, resultsDiv, lastClick>>
fetchVars == <<pending, requests, cachedData, cacheWrites>>
resourcesVars == <<listDiv, filterDiv, resources>>
uploadVars == <<form, msg, uploads, submits, navigated>>
callVars == <<arg, ret>>
envVars == <<variant, page, present, data>>
vars == <<envVars, loaded, listeners, threw, homeVars, fetchVars,
          resourcesVars, uploadVars, callVars>>

\* the state of the parts of the document before DOMContentLoaded: the
\* markup ships the type selector with the class "hidden", the containers
\* empty and the form blank
InitDocument ==
  /\ loaded = FALSE
  /\ listeners = {}
  /\ threw = FALSE
  /\ inputValue = <<>>
  /\ hidden = TRUE
  /\ resultsDiv = <<>>
  /\ pending = EmptyBag
  /\ requests = 0
  /\ cachedData = None
  /\ cacheWrites = 0
  /\ lastClick = None
  /\ listDiv = <<>>
  /\ filterDiv = <<>>
  /\ resources = None
  /\ form = "blank"
  /\ msg = [textContent |-> "", color |-> ""]
  /\ uploads = EmptyBag
  /\ submits = 0
  /\ navigated = FALSE

\* no pure function is being called on its own
NoCall == arg = None /\ ret = None

(***************************************************************************)
(* Home page.                                                              *)
(***************************************************************************)
HomeIds == {"search-input", "search-button", "type-select", "search-results"}

HomeInit ==
  /\ variant \in {"api", "static"}
  /\ page = "home"
  /\ present \in SUBSET HomeIds
  /\ data \in HomeCollections
  /\ InitDocument
  /\ NoCall

\* resultsDiv.innerHTML = ... or renderResourceList(..., resultsDiv); a
\* TypeError when getElementById returned null
WriteResults(children) ==
  IF "search-results" \in present
    THEN resultsDiv' = children /\ UNCHANGED threw
    ELSE threw' = TRUE /\ UNCHANGED resultsDiv

\* DOMContentLoaded on the home page
initHome ==
  /\ page = "home" /\ ~loaded
  /\ loaded' = TRUE
  /\ IF "search-input" \notin present \/ "search-button" \notin present
       THEN UNCHANGED <<listeners, threw>>
     ELSE IF "type-select" \notin present
       THEN listeners' = {"search-button.click"} /\ threw' = TRUE
     ELSE listeners' = {"search-button.click", "type-select.click"}
          /\ UNCHANGED threw
  /\ UNCHANGED <<envVars, homeVars, fetchVars, resourcesVars, uploadVars, callVars>>

\* the user edits the search input
input(v) ==
  /\ page = "home" /\ loaded
  /\ "search-input" \in present
  /\ v # inputValue
  /\ inputValue' = v
  /\ UNCHANGED <<envVars, loaded, listeners, threw, hidden, resultsDiv, lastClick,
                 fetchVars, resourcesVars, uploadVars, callVars>>

\* a search button that requests the resources matching the query itself
searchClickFetches ==
  /\ "search-button.click" \in listeners
  /\ LET q == trim(inputValue)
     IN IF ~Truthy(q)
          THEN WriteResults(<<Prompt>>) /\ UNCHANGED <<hidden, fetchVars>>
        ELSE IF "type-select" \notin present
          THEN threw' = TRUE /\ UNCHANGED <<hidden, resultsDiv, fetchVars>>
        ELSE /\ hidden' = FALSE /\ WriteResults(<<>>)
             /\ IF requests < MaxRequests
                  THEN /\ requests' = requests + 1
                       /\ pending' = pending (+) SetToBag({[q |-> q, type |-> <<>>]})
                       /\ UNCHANGED <<cachedData, cacheWrites>>
                  ELSE UNCHANGED fetchVars
  /\ UNCHANGED <<envVars, loaded, listeners, inputValue, lastClick,
                 resourcesVars, uploadVars, callVars>>

\* click on the search button
searchClick ==
  /\ "search-button.click" \in listeners
  /\ LET q == trim(inputValue)
     IN IF ~Truthy(q)
          THEN WriteResults(<<Prompt>>) /\ UNCHANGED hidden
        ELSE IF "type-select" \notin present
          THEN threw' = TRUE /\ UNCHANGED <<hidden, resultsDiv>>
        ELSE hidden' = FALSE /\ WriteResults(<<>>)
  /\ UNCHANGED <<envVars, loaded, listeners, inputValue, lastClick,
                 fetchVars, resourcesVars, uploadVars, callVars>>

\* click inside the type selector, on the button carrying data-type dt or
\* (btn = FALSE) on no button; the selector takes clicks once the search
\* button has removed its class "hidden".  Static variant: getData answers
\* from cachedData when it is set and fetches DATA_URL otherwise
typeClick(btn, dt) ==
  /\ "type-select.click" \in listeners
  /\ ~hidden
  /\ IF ~btn
       THEN UNCHANGED <<lastClick, fetchVars, resultsDiv, threw>>
     ELSE LET q == trim(inputValue)
              type == OrEmpty(dt)
          IN /\ lastClick' = Some([q |-> q, type |-> type])
             /\ IF variant = "static" /\ cachedData # None
                  THEN /\ WriteResults(renderResourceList(
                            fetchResources(cachedData[1], q, type), resultsDiv, variant))
                       /\ UNCHANGED fetchVars
                  ELSE /\ requests < MaxRequests
                       /\ requests' = requests + 1
                       /\ pending' = pending (+) SetToBag({[q |-> q, type |-> type]})
                       /\ UNCHANGED <<cachedData, cacheWrites, resultsDiv, threw>>
  /\ UNCHANGED <<envVars, loaded, listeners, inputValue, hidden,
                 resourcesVars, uploadVars, callVars>>

\* a handler that drops the response to any click but the most recent one
searchResolvedLatestOnly(f) ==
  /\ page = "home"
  /\ BagIn(f, pending)
  /\ pending' = pending (-) SetToBag({f})
  /\ IF variant = "static"
       THEN cachedData' = Some(data) /\ cacheWrites' = cacheWrites + 1
       ELSE UNCHANGED <<cachedData, cacheWrites>>
  /\ IF lastClick = Some(f)
       THEN WriteResults(renderResourceList(
              apiResources(data, f.q, f.type), resultsDiv, variant))
       ELSE UNCHANGED <<resultsDiv, threw>>
  /\ UNCHANGED <<envVars, loaded, listeners, inputValue, hidden, lastClick, requests,
                 resourcesVars, uploadVars, callVars>>

\* the response to request f arrives and parses
searchResolved(f) ==
  /\ page = "home"
  /\ BagIn(f, pending)
  /\ pending' = pending (-) SetToBag({f})
  /\ IF variant = "static"
       THEN /\ cachedData' = Some(data)
            /\ cacheWrites' = cacheWrites + 1
            /\ WriteResults(renderResourceList(
                 fetchResources(data, f.q, f.type), resultsDiv, variant))
       ELSE /\ UNCHANGED <<cachedData, cacheWrites>>
            /\ WriteResults(renderResourceList(
                 apiResources(data, f.q, f.type), resultsDiv, variant))
  /\ UNCHANGED <<envVars, loaded, listeners, inputValue, hidden, lastClick, requests,
                 resourcesVars, uploadVars, callVars>>

\* a failure that is retried on its own instead of being reported
searchRejectedRetry(f) ==
  /\ page = "home"
  /\ BagIn(f, pending)
  /\ requests < MaxRequests
  /\ requests' = requests + 1
  /\ UNCHANGED <<envVars, loaded, listeners, threw, homeVars, pending,
                 cachedData, cacheWrites, resourcesVars, uploadVars, callVars>>

\* request f is rejected by the network, answered with a body that does not
\* parse or (backend variant) answered non-2xx
searchRejected(f) ==
  /\ page = "home"
  /\ BagIn(f, pending)
  /\ pending' = pending (-) SetToBag({f})
  /\ WriteResults(<<SearchError>>)
  /\ UNCHANGED <<envVars, loaded, listeners, inputValue, hidden, lastClick, requests,
                 cachedData, cacheWrites, resourcesVars, uploadVars, callVars>>

HomeNext ==
  \/ initHome
  \/ \E v \in InputValues : input(v)
  \/ searchClick
  \/ \E btn \in BOOLEAN, dt \in DataTypes : typeClick(btn, dt)
  \/ \E f \in BagToSet(pending) : searchResolved(f)
  \/ \E f \in BagToSet(pending) : searchRejected(f)

(***************************************************************************)
(* Resources page.                                                         *)
(***************************************************************************)
ResourcesIds == {"resource-list", "tag-filter"}

ResourcesInit ==
  /\ variant \in {"api", "static"}
  /\ page = "resources"
  /\ present \in SUBSET ResourcesIds
  /\ data \in Collections
  /\ InitDocument
  /\ NoCall

\* all tags of the items from position k on, in order
RECURSIVE allTags(_, _)
allTags(R, k) ==
  IF k > Len(R) THEN <<>> ELSE OrNone(R[k].tags) \o allTags(R, k + 1)

\* new Set() filled by add: the distinct elements in insertion order
RECURSIVE distinct(_, _)
distinct(seq, seen) ==
  IF seq = <<>> THEN <<>>
  ELSE IF Head(seq) \in seen THEN distinct(Tail(seq), seen)
  ELSE <<Head(seq)>> \o distinct(Tail(seq), seen \cup {Head(seq)})

\* the buttons appended to #tag-filter: 'Alle', then one per distinct tag
filterButtons(R) ==
  LET tags == distinct(allTags(R, 1), {})
  IN <<[textContent |-> <<"A", "l", "l", "e">>, tag |-> undefined, active |-> TRUE]>>
     \o [i \in 1..Len(tags) |->
           [textContent |-> tags[i], tag |-> tags[i], active |-> FALSE]]

\* DOMContentLoaded on the resources page
initResources ==
  /\ page = "resources" /\ ~loaded
  /\ loaded' = TRUE
  /\ requests' = requests + 1
  /\ pending' = pending (+) SetToBag({[q |-> <<>>, type |-> <<>>]})
  /\ UNCHANGED <<envVars, listeners, threw, homeVars, cachedData, cacheWrites,
                 resourcesVars, uploadVars, callVars>>

\* the response to the page's request arrives and parses
loadResolved(f) ==
  /\ page = "resources"
  /\ BagIn(f, pending)
  /\ pending' = pending (-) SetToBag({f})
  /\ IF variant = "static"
       THEN cachedData' = Some(data) /\ cacheWrites' = cacheWrites + 1
       ELSE UNCHANGED <<cachedData, cacheWrites>>
  /\ LET loadedResources ==
           IF variant = "static" THEN data ELSE apiResources(data, f.q, f.type)
     IN IF "tag-filter" \notin present
          THEN \* filterDiv.appendChild throws; the catch writes to listDiv
               /\ IF "resource-list" \in present
                    THEN listDiv' = <<LoadError>> /\ UNCHANGED threw
                    ELSE threw' = TRUE /\ UNCHANGED listDiv
               /\ UNCHANGED <<filterDiv, resources, listeners>>
        ELSE IF "resource-list" \notin present
          THEN \* the buttons are appended, renderResourceList throws, and
               \* so does the catch
               /\ filterDiv' = filterDiv \o filterButtons(loadedResources)
               /\ threw' = TRUE
               /\ UNCHANGED <<listDiv, resources, listeners>>
        ELSE /\ filterDiv' = filterDiv \o filterButtons(loadedResources)
             /\ listDiv' = renderResourceList(loadedResources, listDiv, variant)
             /\ resources' = Some(loadedResources)
             /\ listeners' = listeners \cup {"tag-filter.click"}
             /\ UNCHANGED threw
  /\ UNCHANGED <<envVars, loaded, homeVars, requests, uploadVars, callVars>>

\* the page's request is rejected, does not parse or (backend variant) is
\* answered non-2xx
loadRejected(f) ==
  /\ page = "resources"
  /\ BagIn(f, pending)
  /\ pending' = pending (-) SetToBag({f})
  /\ IF "resource-list" \in present
       THEN listDiv' = <<LoadError>> /\ UNCHANGED threw
       ELSE threw' = TRUE /\ UNCHANGED listDiv
  /\ UNCHANGED <<envVars, loaded, listeners, homeVars, requests, cachedData,
                 cacheWrites, filterDiv, resources, uploadVars, callVars>>

\* the tag filter without the toLowerCase calls
filterByTagCaseSensitive(R, tag) ==
  IF ~Truthy(tag) THEN R
  ELSE SelectSeq(R, LAMBDA r :
         \E i \in 1..Len(OrNone(r.tags)) : OrNone(r.tags)[i] = tag)

\* a tag filter that lowers the case of the control's tag and not of the
\* resources' tags
filterByTagLowersControl(R, tag) ==
  IF ~Truthy(tag) THEN R
  ELSE SelectSeq(R, LAMBDA r :
         \E i \in 1..Len(OrNone(r.tags)) :
            OrNone(r.tags)[i] = toLowerCase(tag))

\* the resources page's tag filter: btn.dataset.tag || '' decides between
\* the collection and its filtered copy
filterByTag(R, tag) ==
  IF ~Truthy(tag) THEN R
  ELSE SelectSeq(R, LAMBDA r :
         \E i \in 1..Len(OrNone(r.tags)) :
            toLowerCase(OrNone(r.tags)[i]) = toLowerCase(tag))

\* a filter handler that keeps the filtered list as its collection, so that
\* the next filter starts from it
filterClickNarrows(i) ==
  /\ "tag-filter.click" \in listeners
  /\ i \in 0..Len(filterDiv)
  /\ IF i = 0
       THEN UNCHANGED <<filterDiv, listDiv, resources>>
       ELSE /\ filterDiv' = [j \in 1..Len(filterDiv) |->
                               [filterDiv[j] EXCEPT !.active = (j = i)]]
            /\ resources' = Some(filterByTag(resources[1], OrEmpty(filterDiv[i].tag)))
            /\ listDiv' = renderResourceList(
                 filterByTag(resources[1], OrEmpty(filterDiv[i].tag)), listDiv, variant)
  /\ UNCHANGED <<envVars, loaded, listeners, threw, homeVars, fetchVars,
                 uploadVars, callVars>>

\* a filter handler that marks the clicked button and forgets to unmark
\* the others
filterClickKeepsMarks(i) ==
  /\ "tag-filter.click" \in listeners
  /\ i \in 0..Len(filterDiv)
  /\ IF i = 0
       THEN UNCHANGED <<filterDiv, listDiv>>
       ELSE /\ filterDiv' = [filterDiv EXCEPT ![i].active = TRUE]
            /\ listDiv' = renderResourceList(
                 filterByTag(resources[1], OrEmpty(filterDiv[i].tag)), listDiv, variant)
  /\ UNCHANGED <<envVars, loaded, listeners, threw, homeVars, fetchVars, resources,
                 uploadVars, callVars>>

\* click inside #tag-filter on its i-th button, or (i = 0) on no button
filterClick(i) ==
  /\ "tag-filter.click" \in listeners
  /\ i \in 0..Len(filterDiv)
  /\ IF i = 0
       THEN UNCHANGED <<filterDiv, listDiv>>
       ELSE /\ filterDiv' = [j \in 1..Len(filterDiv) |->
                               [filterDiv[j] EXCEPT !.active = (j = i)]]
            /\ listDiv' = renderResourceList(
                 filterByTag(resources[1], OrEmpty(filterDiv[i].tag)), listDiv, variant)
  /\ UNCHANGED <<envVars, loaded, listeners, threw, homeVars, fetchVars, resources,
                 uploadVars, callVars>>

ResourcesNext ==
  \/ initResources
  \/ \E f \in BagToSet(pending) : loadResolved(f)
  \/ \E f \in BagToSet(pending) : loadRejected(f)
  \/ \E i \in 0..Len(filterDiv) : filterClick(i)

(***************************************************************************)
(* Upload page (backend variant only).                                     *)
(***************************************************************************)
UploadIds == {"upload-form", "upload-message"}

\* what the user can fill the form with
FormValues == {"a", "b"}

UploadOk == [textContent |-> "Upload succesvol!", color |-> "green"]
UploadFailed == [textContent |-> "Er ging iets mis bij het uploaden.", color |-> "red"]

UploadInit ==
  /\ variant = "api"
  /\ page = "upload"
  /\ present \in SUBSET UploadIds
  /\ data \in {<<>>}
  /\ InitDocument
  /\ NoCall

\* DOMContentLoaded on the upload page
initUpload ==
  /\ page = "upload" /\ ~loaded
  /\ loaded' = TRUE
  /\ listeners' = IF "upload-form" \in present THEN {"upload-form.submit"} ELSE {}
  /\ UNCHANGED <<envVars, threw, homeVars, fetchVars, resourcesVars, uploadVars, callVars>>

\* the user fills in the form
fill(v) ==
  /\ page = "upload" /\ loaded
  /\ "upload-form" \in present
  /\ v # form
  /\ form' = v
  /\ UNCHANGED <<envVars, loaded, listeners, threw, homeVars, fetchVars, resourcesVars,
                 msg, uploads, submits, navigated, callVars>>

\* the form is submitted
submit ==
  /\ "upload-form.submit" \in listeners
  /\ submits < MaxSubmits
  /\ submits' = submits + 1
  /\ LET defaultPrevented == TRUE
     IN navigated' = (navigated \/ ~defaultPrevented)
  /\ IF "upload-message" \notin present
       THEN threw' = TRUE /\ UNCHANGED <<msg, uploads>>
       ELSE /\ msg' = [msg EXCEPT !.textContent = ""]
            /\ uploads' = uploads (+) SetToBag({form})
            /\ UNCHANGED threw
  /\ UNCHANGED <<envVars, loaded, listeners, homeVars, fetchVars, resourcesVars,
                 form, callVars>>

\* POST /api/upload is answered 2xx with a body that parses
uploadResolved(u) ==
  /\ BagIn(u, uploads)
  /\ uploads' = uploads (-) SetToBag({u})
  /\ msg' = UploadOk
  /\ form' = "blank"
  /\ UNCHANGED <<envVars, loaded, listeners, threw, homeVars, fetchVars, resourcesVars,
                 submits, navigated, callVars>>

\* an upload failure that also resets the form
uploadRejectedReset(u) ==
  /\ BagIn(u, uploads)
  /\ uploads' = uploads (-) SetToBag({u})
  /\ msg' = UploadFailed
  /\ form' = "blank"
  /\ UNCHANGED <<envVars, loaded, listeners, threw, homeVars, fetchVars, resourcesVars,
                 submits, navigated, callVars>>

\* POST /api/upload is rejected by the network, answered non-2xx, or
\* answered with a body that does not parse
uploadRejected(u) ==
  /\ BagIn(u, uploads)
  /\ uploads' = uploads (-) SetToBag({u})
  /\ msg' = UploadFailed
  /\ UNCHANGED <<envVars, loaded, listeners, threw, homeVars, fetchVars, resourcesVars,
                 form, submits, navigated, callVars>>

UploadNext ==
  \/ initUpload
  \/ \E v \in FormValues : fill(v)
  \/ submit
  \/ \E u \in BagToSet(uploads) : uploadResolved(u)
  \/ \E u \in BagToSet(uploads) : uploadRejected(u)

(***************************************************************************)
(* The pages of one deployment.                                            *)
(***************************************************************************)
Init == HomeInit \/ ResourcesInit \/ UploadInit

Next == HomeNext \/ ResourcesNext \/ UploadNext

Spec == Init /\ [][Next]_vars

(***************************************************************************)
(* Properties of the home page.                                            *)
(***************************************************************************)
\* the children of a container showing the resources matching q and type
Showing(q, type) == renderResourceList(apiResources(data, q, type), <<>>, variant)

\* the container shows a rendered result (cards or 'no results')
ShowsResult == resultsDiv \notin {<<>>, <<Prompt>>, <<SearchError>>}

\* C1: on the home page, whenever no fetch is outstanding after a
\* type-button click, the results container shows exactly the resources
\* matching the query and type of the most recent type-button click (or
\* 'no results'), never the result of an earlier click.  Stated for the
\* states most favourable to it: those in which the container shows a
\* rendered result at all.
C1_ShowsMostRecentClick ==
  (page = "home" /\ lastClick # None /\ pending = EmptyBag /\ ShowsResult)
    => resultsDiv = Showing(lastClick[1].q, lastClick[1].type)

\* C2: on the home page no resource fetch is issued while the trimmed
\* search-input value is empty: no request in flight carries an empty query.
C2_NoFetchWithEmptyQuery ==
  page = "home" => \A f \in BagToSet(pending) : f.q # <<>>

\* C3: static variant: the JSON document is fetched once per page session,
\* also when getData is called while an earlier fetch is outstanding: at
\* most one request is in flight, none once the cache is filled, and
\* cachedData is written at most once.
C3_FetchedOnce ==
  variant = "static" =>
    /\ BagCardinality(pending) <= 1
    /\ cachedData # None => pending = EmptyBag
    /\ cacheWrites <= 1

\* C7: after a click on the search button with an empty trimmed query the
\* results container shows the prompt and the type selector is hidden, also
\* when an earlier search has revealed the selector.  (The prompt is written
\* by that click alone and stays until the next write to the container.)
C7_EmptySearchHidesSelector ==
  resultsDiv = <<Prompt>> => hidden

\* C8: whatever subset of the consumed elements is absent from the page,
\* initHome, initResources, initUpload and the handlers they register
\* complete without throwing.
C8_NeverThrows == ~threw

\* C9: a failed load or search is terminal for that user action and not
\* fatal for the page: the container shows the error message, the failure
\* is not cached and issues no request; requests are issued by a
\* type-button click or the resources page's load alone, a click after a
\* failure issues one, and a response that arrives and parses is rendered
\* as the result of its request.
C9_FailureIsTerminal ==
  [][/\ \A f \in BagToSet(pending) :
          /\ (searchRejected(f) /\ "search-results" \in present)
               => /\ resultsDiv' = <<SearchError>>
                  /\ requests' = requests
                  /\ cachedData' = cachedData
                  /\ BagCardinality(pending') < BagCardinality(pending)
          /\ (loadRejected(f) /\ "resource-list" \in present)
               => /\ listDiv' = <<LoadError>>
                  /\ requests' = requests
                  /\ cachedData' = cachedData
                  /\ pending' = EmptyBag
          /\ (searchResolved(f) /\ "search-results" \in present)
               => resultsDiv' = Showing(f.q, f.type)
     /\ requests' # requests
          => /\ requests' = requests + 1
             /\ initResources \/ \E dt \in DataTypes : typeClick(TRUE, dt)
     /\ \A dt \in DataTypes :
          (typeClick(TRUE, dt) /\ (variant = "api" \/ cachedData = None))
            => /\ requests' = requests + 1
               /\ BagIn([q |-> trim(inputValue), type |-> OrEmpty(dt)], pending')
    ]_vars

\* C9 witness: a search has failed and the container shows the error
C9_Witness ==
  /\ page = "home"
  /\ resultsDiv = <<SearchError>>
  /\ pending = EmptyBag
  /\ requests >= 1

(***************************************************************************)
(* Properties of the resources page.                                       *)
(***************************************************************************)
SameIgnoringCase(a, b) ==
  Len(a) = Len(b) /\ \A j \in 1..Len(a) : LowerChar(a[j]) = LowerChar(b[j])

\* the resources having some tag equal to tag, letter case ignored
HavingTag(R, tag) ==
  SelectSeq(R, LAMBDA r :
    \E i \in 1..Len(OrNone(r.tags)) : SameIgnoringCase(OrNone(r.tags)[i], tag))

\* the control carrying the active mark is the one clicked last ('Alle'
\* before any click)
ActiveControls == {i \in 1..Len(filterDiv) : filterDiv[i].active}

\* C6 as claimed: once the collection has loaded, the list shows exactly the
\* resources having some tag equal, case-insensitively, to the tag of the
\* control clicked last, and the full collection when that control is 'all'.
C6_ListShowsClickedTag ==
  resources # None =>
    \A i \in ActiveControls :
      listDiv = renderResourceList(
        IF filterDiv[i].tag = undefined THEN resources[1]
        ELSE HavingTag(resources[1], filterDiv[i].tag), <<>>, variant)

\* C6 amended: ... and the full collection when that control is 'all' or
\* carries the empty tag.
C6_ListShowsClickedTagOrAll ==
  resources # None =>
    \A i \in ActiveControls :
      listDiv = renderResourceList(
        IF filterDiv[i].tag \in {undefined, <<>>} THEN resources[1]
        ELSE HavingTag(resources[1], filterDiv[i].tag), <<>>, variant)

\* C6 witness: a tag control was clicked and the list is a proper, non-empty
\* part of the collection
C6_Witness ==
  /\ resources # None
  /\ \E i \in ActiveControls : Truthy(filterDiv[i].tag)
  /\ listDiv # <<NoResults>>
  /\ Len(listDiv) < Len(resources[1])

(***************************************************************************)
(* Properties of the upload page.                                          *)
(***************************************************************************)
\* C10: a failed upload leaves the form as it is and sets the status
\* message to the failure text in red; the form is reset by a successful
\* upload alone, which sets the success text; the default navigation of the
\* form never happens.
C10_UploadOutcome ==
  [][/\ BagCardinality(uploads') < BagCardinality(uploads)
          => \/ msg' = UploadFailed /\ form' = form
             \/ msg' = UploadOk /\ form' = "blank"
     /\ \A u \in BagToSet(uploads) :
          /\ uploadRejected(u) => msg' = UploadFailed /\ form' = form
          /\ uploadResolved(u) => msg' = UploadOk /\ form' = "blank"
     /\ (form # "blank" /\ form' = "blank")
          => msg' = UploadOk /\ \E u \in BagToSet(uploads) : uploadResolved(u)
     /\ ~navigated'
    ]_vars

\* C10 witness: an upload has failed and the filled-in form is still there
C10_Witness ==
  /\ msg = UploadFailed
  /\ form # "blank"
  /\ submits >= 1
  /\ ~navigated

(***************************************************************************)
(* escapeHtml and the static filter on their own inputs.                   *)
(***************************************************************************)
\* neither page: the state of a call of a pure function
NoPage ==
  /\ page = "none"
  /\ present = {}
  /\ data = <<>>
  /\ InitDocument
  /\ ret = None

FiveReserved == <<"&", "<", ">", "\"", "'">>
ScriptTitle == <<"<", "s", "c", "r", "i", "p", "t", ">", "x",
                 "<", "/", "s", "c", "r", "i", "p", "t", ">">>

\* the texts escapeHtml is applied to
EscapeInputs ==
  StringsUpTo({"&", "<", ">", "\"", "'", "x"}, MaxTextLen)
    \cup {FiveReserved, ScriptTitle}

EscapeInit ==
  /\ variant \in {"api", "static"}
  /\ NoPage
  /\ arg \in {Some([text |-> t]) : t \in EscapeInputs}

callEscapeHtml ==
  /\ page = "none" /\ arg # None /\ ret = None
  /\ ret' = Some(escapeHtmlOf(variant, arg[1].text))
  /\ UNCHANGED <<envVars, loaded, listeners, threw, homeVars, fetchVars,
                 resourcesVars, uploadVars, arg>>

SpecEscape == EscapeInit /\ [][callEscapeHtml]_vars

\* the entity of one character
Entity(c) ==
  CASE c = "&" -> Amp
    [] c = "<" -> Lt
    [] c = ">" -> Gt
    [] c = "\"" -> Quot
    [] c = "'" -> Apos
    [] OTHER -> <<c>>

\* every character replaced by its entity, from position k on
RECURSIVE EntitiesFrom(_, _)
EntitiesFrom(s, k) ==
  IF k > Len(s) THEN <<>> ELSE Entity(s[k]) \o EntitiesFrom(s, k + 1)

EscapedScriptTitle ==
  <<"&", "l", "t", ";", "s", "c", "r", "i", "p", "t", "&", "g", "t", ";", "x",
    "&", "l", "t", ";", "/", "s", "c", "r", "i", "p", "t", "&", "g", "t", ";">>

\* what C4 says of one call: text in, out returned
EscapedAsClaimed(text, out, v) ==
  /\ out = EntitiesFrom(text, 1)
  /\ \A i \in 1..Len(out) : out[i] \notin {"<", ">", "\"", "'"}
  /\ text = FiveReserved => out = Amp \o Lt \o Gt \o Quot \o Apos
  /\ text = ScriptTitle =>
       /\ out = EscapedScriptTitle
       /\ Card([r1 EXCEPT !.title = text], v).title = EscapedScriptTitle

\* C4: escapeHtml (of either variant) replaces each of & < > " ' by its
\* entity and leaves the other characters alone; so its result holds no
\* literal < > " or ', the five reserved characters give
\* &amp;&lt;&gt;&quot;&#39; with nothing escaped twice, and the title
\* <script>x</script> is rendered as &lt;script&gt;x&lt;/script&gt;.
C4_EscapeHtml ==
  (page = "none" /\ ret # None) => EscapedAsClaimed(arg[1].text, ret[1], variant)

\* the same of the backend variant's function alone (it holds there)
EscapeHtmlBackend ==
  (page = "none" /\ ret # None /\ variant = "api")
    => EscapedAsClaimed(arg[1].text, ret[1], variant)

\* the resources, queries and types the filter is applied to
FilterPool == {r1, r2, r3, r4}
FilterQueries == StringsUpTo({"s", "W"}, MaxFilterLen)
FilterTypes == StringsUpTo({"d", "P"}, MaxFilterLen)

FilterInit ==
  /\ variant = "static"
  /\ NoPage
  /\ arg \in {Some([resources |-> R, q |-> q, type |-> t]) :
                R \in StringsUpTo(FilterPool, MaxFilterLen),
                q \in FilterQueries, t \in FilterTypes}

callFetchResources ==
  /\ page = "none" /\ arg # None /\ ret = None
  /\ ret' = Some(fetchResources(arg[1].resources, arg[1].q, arg[1].type))
  /\ UNCHANGED <<envVars, loaded, listeners, threw, homeVars, fetchVars,
                 resourcesVars, uploadVars, arg>>

SpecFilter == FilterInit /\ [][callFetchResources]_vars

\* the positions of R whose resource matches q (when non-empty) and t (when
\* non-empty)
Kept(R, q, t) ==
  {i \in 1..Len(R) : /\ q = <<>> \/ QueryMatch(R[i], q)
                     /\ t = <<>> \/ TypeMatch(R[i], t)}

\* C5: static variant: fetchResources(q, type) resolves to the
\* order-preserving subsequence of the collection whose members contain q
\* in title or description (letter case ignored, absent fields empty) when
\* q is non-empty, and have the type t (letter case ignored) when t is
\* non-empty; to the collection itself when both are empty.
C5_FilterIsSubsequence ==
  (page = "none" /\ ret # None) =>
    LET R == arg[1].resources
        q == arg[1].q
        t == arg[1].type
        out == ret[1]
        keep == Kept(R, q, t)
    IN /\ Len(out) = Cardinality(keep)
       /\ \A k \in 1..Len(out) :
            \E i \in keep : /\ Cardinality({j \in keep : j < i}) = k - 1
                            /\ out[k] = R[i]
       /\ (q = <<>> /\ t = <<>>) => out = R

\* C5 witness: a query and a type together kept some resources and dropped
\* others
C5_Witness ==
  /\ page = "none" /\ ret # None
  /\ arg[1].q # <<>> /\ arg[1].type # <<>>
  /\ Len(ret[1]) > 0
  /\ Len(ret[1]) < Len(arg[1].resources)

(***************************************************************************)
(* renderResourceList called again and again on one container.             *)
(***************************************************************************)
\* the item lists of the calls: None for absent items (null, undefined)
RenderItems == {None} \cup {Some(R) : R \in StringsUpTo(FilterPool, MaxRenderLen)}

\* ret holds the container's children, arg the last call and the number of
\* calls so far
RenderInit ==
  /\ variant \in {"api", "static"}
  /\ page = "none"
  /\ present = {}
  /\ data = <<>>
  /\ InitDocument
  /\ arg = None
  /\ ret \in {Some(<<>>), Some(<<Prompt>>)}

\* renderResourceList(items, container); !items sends absent items the way
\* of the empty list
callRenderResourceList(items) ==
  /\ page = "none" /\ ret # None
  /\ arg' = Some([items |-> items,
                  calls |-> IF arg = None THEN 1
                            ELSE IF arg[1].calls < MaxRenderCalls
                              THEN arg[1].calls + 1 ELSE arg[1].calls])
  /\ ret' = Some(renderResourceList(
               IF items = None THEN <<>> ELSE items[1], ret[1], variant))
  /\ UNCHANGED <<envVars, loaded, listeners, threw, homeVars, fetchVars,
                 resourcesVars, uploadVars>>

RenderNext == \E items \in RenderItems : callRenderResourceList(items)

SpecRender == RenderInit /\ [][RenderNext]_vars

\* C11: after any sequence of render calls on one container it holds
\* exactly one card per item of the last call, in item order, and nothing
\* of earlier calls; when the last call's items are empty or absent it
\* holds exactly one 'no results' node and no card.
C11_RenderReplaces ==
  (page = "none" /\ arg # None) =>
    LET items == IF arg[1].items = None THEN <<>> ELSE arg[1].items[1]
        children == ret[1]
        cards == {i \in 1..Len(children) : children[i].class = "resource"}
    IN IF Len(items) = 0
         THEN children = <<NoResults>> /\ cards = {}
         ELSE /\ Len(children) = Len(items)
              /\ cards = 1..Len(children)
              /\ \A i \in 1..Len(items) :
                   /\ children[i].tag = "div"
                   /\ children[i].title = escapeHtmlOf(variant, OrEmpty(items[i].title))
                   /\ children[i].desc =
                        escapeHtmlOf(variant, OrEmpty(items[i].description))
                   /\ children[i].link = linkHtml(items[i], variant)

\* C11 witness: a second call with two items or more has replaced what the
\* first call left
C11_Witness ==
  /\ page = "none" /\ arg # None
  /\ arg[1].calls >= 2
  /\ arg[1].items # None
  /\ Len(arg[1].items[1]) >= 2
  /\ Len(ret[1]) = Len(arg[1].items[1])

(***************************************************************************)
(* Overlapping searches on the home page.                                  *)
(***************************************************************************)
\* C12: last writer wins on the results container: a type-button click
\* neither cancels nor merges a fetch already outstanding, and with several
\* outstanding each response that arrives is rendered as the result of its
\* own request, whatever the order of the clicks; so the container ends up
\* with the result of the response that arrives last.
C12_LastWriterWins ==
  [][/\ \A dt \in DataTypes :
          typeClick(TRUE, dt) =>
            /\ \A g \in BagToSet(pending) : CopiesIn(g, pending') >= CopiesIn(g, pending)
            /\ (variant = "api" \/ cachedData = None)
                 => BagCardinality(pending') = BagCardinality(pending) + 1
     /\ \A f \in BagToSet(pending) :
          (searchResolved(f) /\ "search-results" \in present)
            => /\ resultsDiv' = Showing(f.q, f.type)
               /\ \A g \in BagToSet(pending) \ {f} : CopiesIn(g, pending') = CopiesIn(g, pending)
    ]_vars

\* C12 witness: with nothing outstanding any more, the container shows the
\* result of an earlier click, not that of the most recent one
C12_Witness ==
  /\ page = "home"
  /\ lastClick # None
  /\ requests >= 2
  /\ pending = EmptyBag
  /\ resultsDiv # Showing(lastClick[1].q, lastClick[1].type)
  /\ \E v \in InputValues, dt \in DataTypes :
       /\ [q |-> trim(v), type |-> OrEmpty(dt)] # lastClick[1]
       /\ resultsDiv = Showing(trim(v), OrEmpty(dt))

(***************************************************************************)
(* The active mark of the filter controls.                                 *)
(***************************************************************************)
\* C13: resources page: once the filter controls exist, exactly one of them
\* carries the active mark after every sequence of clicks: the 'all' control
\* (the first, without data-tag) when they are created, and the control
\* clicked whenever one is clicked; nothing else moves the mark.
C13_OneActiveControl ==
  /\ [](filterDiv # <<>> => Cardinality(ActiveControls) = 1)
  /\ [][/\ (filterDiv = <<>> /\ filterDiv' # <<>>)
             => ActiveControls' = {1} /\ filterDiv'[1].tag = undefined
        /\ \A i \in 1..Len(filterDiv) : filterClick(i) => ActiveControls' = {i}
        /\ (filterDiv # <<>> /\ ActiveControls' # ActiveControls)
             => \E i \in 1..Len(filterDiv) : filterClick(i)
       ]_vars

\* C13 witness: a tag control has been clicked and carries the mark alone
C13_Witness ==
  /\ page = "resources"
  /\ \E i \in 2..Len(filterDiv) : ActiveControls = {i}

(***************************************************************************)
(* The loaded collection.                                                  *)
(***************************************************************************)
\* C14: the loaded collection does not change within a page session: no
\* search, type filter or tag filter changes cachedData (static variant) or
\* the collection the resources page has captured, both stay the complete
\* collection of the data source, and every filter is computed from that
\* complete collection, never from the result of an earlier filter.
C14_CollectionImmutable ==
  /\ [](/\ cachedData # None => cachedData = Some(data)
        /\ resources # None => resources = Some(data))
  /\ [][/\ cachedData # None => cachedData' = cachedData
        /\ resources # None => resources' = resources
        /\ \A i \in 1..Len(filterDiv) :
             filterClick(i) =>
               listDiv' = renderResourceList(
                 IF Truthy(filterDiv[i].tag) THEN HavingTag(data, filterDiv[i].tag)
                 ELSE data, <<>>, variant)
        /\ \A dt \in DataTypes :
             (/\ typeClick(TRUE, dt)
              /\ variant = "static" /\ cachedData # None
              /\ "search-results" \in present)
               => resultsDiv' = Showing(trim(inputValue), OrEmpty(dt))
       ]_vars

\* C14 witness: static variant: a tag filter has cut the list down while
\* the cached and the captured collection are still complete
C14_Witness ==
  /\ page = "resources" /\ variant = "static"
  /\ cachedData = Some(data) /\ resources = Some(data)
  /\ \E i \in 2..Len(filterDiv) : filterDiv[i].active
  /\ Len(listDiv) < Len(data)

(***************************************************************************)
(* The action link of a card.                                              *)
(***************************************************************************)
UploadsRoute == <<"/", "u", "p", "l", "o", "a", "d", "s", "/">>

\* C15: in the cards of the last render call an item with a url carries the
\* external link to that url (written through the variant's escapeHtml),
\* with or without a file; an item with a file and no url carries a download
\* link to /uploads/<percent-encoded file> in the backend variant and no
\* link in the static variant; an item with neither carries no link.
C15_ActionLink ==
  (page = "none" /\ arg # None /\ arg[1].items # None
     /\ Len(arg[1].items[1]) > 0) =>
    \A i \in 1..Len(arg[1].items[1]) :
      LET item == arg[1].items[1][i]
          link == ret[1][i].link
      IN /\ Truthy(item.url) =>
              /\ link.kind = "external"
              /\ link.href = escapeHtmlOf(variant, item.url)
              /\ (variant = "api" /\ item.url = <<"u", "&">>) =>
                   link.href = <<"u">> \o Amp
         /\ (~Truthy(item.url) /\ Truthy(item.file)) =>
              IF variant = "api"
                THEN /\ link.kind = "download"
                     /\ link.href = UploadsRoute \o encodeURIComponent(item.file)
                     /\ item.file = <<"f", " ">> =>
                          link.href = UploadsRoute \o <<"f", "%", "2", "0">>
                ELSE link = NoLink
         /\ (~Truthy(item.url) /\ ~Truthy(item.file)) => link = NoLink

\* C15 witness: one render call of each variant's kind has drawn an item
\* with url and file, an item with a file only and an item with neither
C15_Witness ==
  /\ page = "none" /\ arg # None /\ arg[1].items = Some(<<r3, r2, r4>>)
  /\ ret[1][1].link.kind = "external"
  /\ ret[1][3].link = NoLink

(***************************************************************************)
(* Who issues requests.                                                    *)
(***************************************************************************)
\* C16: a resource request is issued by a type-button click on the home
\* page or by the load of the resources page and by nothing else: a click
\* on the search button, with an empty or a non-empty query, and a click on
\* a tag or 'Alle' control issue none; a click on the search button with a
\* non-empty query empties the results container and reveals the type
\* selector (on a page that has both).
C16_FetchIssuers ==
  [][/\ (requests' > requests \/ BagCardinality(pending') > BagCardinality(pending))
          => \/ \E dt \in DataTypes : typeClick(TRUE, dt)
             \/ initResources
     /\ searchClick => (requests' = requests /\ pending' = pending)
     /\ \A i \in 0..Len(filterDiv) :
          filterClick(i) => (requests' = requests /\ pending' = pending)
     /\ (/\ searchClick
         /\ Truthy(trim(inputValue))
         /\ {"type-select", "search-results"} \subseteq present)
          => (resultsDiv' = <<>> /\ ~hidden')
    ]_vars

\* C16 witness: a search click with a non-empty query has emptied the
\* container and revealed the selector, and no request has been issued
C16_Witness ==
  /\ page = "home" /\ "search-results" \in present
  /\ Truthy(trim(inputValue))
  /\ ~hidden /\ resultsDiv = <<>>
  /\ requests = 0 /\ pending = EmptyBag

(***************************************************************************)
(* What the filter controls show.                                          *)
(***************************************************************************)
\* C17: on the resources page every control made from a loaded, non-empty
\* collection, a tag's or 'Alle', shows on a click a list of at least one
\* card and never the 'no results' message; and a click on a control shows
\* the list of every control whose tag differs from its tag in letter case
\* only.
C17_ControlsShowCards ==
  [][\A i \in 1..Len(filterDiv) :
       (filterClick(i) /\ resources # None /\ Len(resources[1]) > 0) =>
         /\ Len(listDiv') > 0
         /\ \A k \in 1..Len(listDiv') : listDiv'[k].class = "resource"
         /\ listDiv' # <<NoResults>>
         /\ \A j \in 2..Len(filterDiv) :
              (/\ i >= 2
               /\ Truthy(filterDiv[i].tag) /\ Truthy(filterDiv[j].tag)
               /\ SameIgnoringCase(filterDiv[i].tag, filterDiv[j].tag))
                => listDiv' = renderResourceList(
                     HavingTag(resources[1], filterDiv[j].tag), <<>>, variant)
    ]_vars

\* C17 witness: the control clicked last has a sibling whose tag differs in
\* letter case only, and the list shows cards
C17_Witness ==
  /\ page = "resources" /\ resources # None
  /\ \E i, j \in 2..Len(filterDiv) :
       /\ i # j /\ ActiveControls = {i}
       /\ Truthy(filterDiv[i].tag)
       /\ SameIgnoringCase(filterDiv[i].tag, filterDiv[j].tag)
  /\ Len(listDiv) > 0
  /\ \A k \in 1..Len(listDiv) : listDiv[k].class = "resource"

====
